---- MODULE Spec2Model ----
(***************************************************************************)
(* The crawl pipeline of the forum scraper (crawlNvidia, crawlPage,        *)
(* saveTopic, createCsvHeader, fetchJson) as a state machine.  A state is  *)
(* the point at which the single fiber of the pipeline is suspended; every *)
(* action is the completion of the awaited external call (or a synchronous *)
(* handler) together with everything the code does up to the next await.   *)
(*                                                                         *)
(* Text is a sequence of tokens: each of the characters  , " \n < >  is a  *)
(* token of its own, and a run of other characters is one token.  The      *)
(* output file is the sequence of chunks written to it; its content is     *)
(* their concatenation.                                                    *)
(***************************************************************************)
EXTENDS Integers, Sequences, FiniteSets, TLC

VARIABLES pc, page, topics, more_topics_url, idx, csvLine, file, err, log, pages,
          before, arg, result

vars == <<pc, page, topics, more_topics_url, idx, csvLine, file, err, log, pages,
          before, arg, result>>

\* What no step of a run changes: the content an earlier run left in the
\* file (RerunSpec), and the input and the output of a function applied on
\* its own (StripSpec, SaveSpec).
fixed == <<before, arg, result>>

(* ------------------------------ bounds --------------------------------- *)

\* Listing pages whose content and calls the model records.  Spec follows a
\* run up to the decision after page MaxPage; EndlessSpec follows it further,
\* over pages that list no thread, without recording them.
MaxPage == 2

\* Items a listing page holds at most.
MaxItems == 2

\* Tokens a field of a row holds at most.
MaxField == 2

\* Tokens a text handed to stripHtml holds at most (the text of the worked
\* example apart).
MaxText == 4

(* ------------------------------- text ---------------------------------- *)

\* Array.prototype.join(","): the parts separated by one comma token.
RECURSIVE JoinComma(_)
JoinComma(parts) ==
    IF parts = <<>> THEN <<>>
    ELSE IF Len(parts) = 1 THEN Head(parts)
    ELSE Head(parts) \o <<",">> \o JoinComma(Tail(parts))

Includes(str, ch) == \E i \in 1..Len(str) : str[i] = ch

\* Index of the first token equal to ch at or after position i, 0 if none.
RECURSIVE IndexFrom(_, _, _)
IndexFrom(str, ch, i) ==
    IF i > Len(str) THEN 0
    ELSE IF str[i] = ch THEN i
    ELSE IndexFrom(str, ch, i + 1)

\* html.replace(/<[^>]*>/g, ""): as stripHtml, with "<>" removed as well.
RECURSIVE stripHtmlStar(_)
stripHtmlStar(html) ==
    IF html = <<>> THEN <<>>
    ELSE IF Head(html) # "<" THEN <<Head(html)>> \o stripHtmlStar(Tail(html))
    ELSE LET close == IndexFrom(html, ">", 2)
         IN  IF close >= 2
             THEN stripHtmlStar(SubSeq(html, close + 1, Len(html)))
             ELSE <<"<">> \o stripHtmlStar(Tail(html))

\* html.replace(/<[^>]+>/g, ""): scanning left to right, a "<" followed by
\* one or more characters other than ">" and then a ">" is removed; the
\* class [^>] also matches "<" and newline, so the match runs from the "<"
\* to the first ">" after it, and needs at least one character in between.
\* A "<" that starts no match is kept and scanning resumes after it.
RECURSIVE stripHtml(_)
stripHtml(html) ==
    IF html = <<>> THEN <<>>
    ELSE IF Head(html) # "<" THEN <<Head(html)>> \o stripHtml(Tail(html))
    ELSE LET close == IndexFrom(html, ">", 2)
         IN  IF close > 2
             THEN stripHtml(SubSeq(html, close + 1, Len(html)))
             ELSE <<"<">> \o stripHtml(Tail(html))

\* str.replace(/"/g, '""')
RECURSIVE DoubleQuotes(_)
DoubleQuotes(str) ==
    IF str = <<>> THEN <<>>
    ELSE (IF Head(str) = "\"" THEN <<"\"", "\"">> ELSE <<Head(str)>>)
         \o DoubleQuotes(Tail(str))

escapeCsv(str) ==
    IF Includes(str, ",") \/ Includes(str, "\n") \/ Includes(str, "\"")
    THEN <<"\"">> \o DoubleQuotes(str) \o <<"\"">>
    ELSE str

(* ------------------------------ dates ---------------------------------- *)

\* A Date: valid with a time value (days since the epoch), or Invalid Date.
InvalidDate == [valid |-> FALSE, t |-> 0]

\* parseISO / new Date on the timestamps the model uses.
parseISO(s) ==
    CASE s = <<"2023-12-01T00:00:00.000Z">> -> [valid |-> TRUE, t |-> 19692]
      [] s = <<"2024-01-01">>               -> [valid |-> TRUE, t |-> 19723]
      [] s = <<"2024-01-01T00:00:00.000Z">> -> [valid |-> TRUE, t |-> 19723]
      [] s = <<"2024-02-01T00:00:00.000Z">> -> [valid |-> TRUE, t |-> 19754]
      [] OTHER                              -> InvalidDate

\* isBefore with its arguments exchanged.
isBeforeSwapped(d, limit) == d.valid /\ limit.valid /\ limit.t < d.t

\* d < limit on Dates: a comparison with an Invalid Date (NaN) is false.
isBefore(d, limit) == d.valid /\ limit.valid /\ d.t < limit.t

(* ---------------------------- parameters ------------------------------- *)

params == [tag |-> <<"cuda">>, since |-> parseISO(<<"2024-01-01">>), outputDir |-> "/out"]

(* ------------------------------ server --------------------------------- *)

\* An optional value: <<>> when absent (undefined), <<v>> when present.
None == <<>>

Some(v) == <<v>>

\* more_topics_url: null, or a string (possibly the empty string).
Null == "<null>"

MoreUrls == {Null, "", "/tag/cuda?page=next"}

\* The threads the server may list (TopicListItem): thread 1 was created
\* exactly at the cutoff, thread 2 after it, thread 3 before it.
Items ==
    { [id |-> 1, title |-> <<"Hello", ",", " World">>, slug |-> "hello-world",
       created_at |-> <<"2024-01-01T00:00:00.000Z">>],
      [id |-> 2, title |-> <<"She said ", "\"", "hi", "\"">>, slug |-> "she-said",
       created_at |-> <<"2024-02-01T00:00:00.000Z">>],
      [id |-> 3, title |-> <<"Old thread">>, slug |-> "old-thread",
       created_at |-> <<"2023-12-01T00:00:00.000Z">>] }

SeqsUpTo(S, n) == UNION { [1..k -> S] : k \in 0..n }

\* The decoded bodies a listing request may be answered with (TopicListRes).
ListingBodies ==
    { [topic_list |-> [topics |-> ts, more_topics_url |-> m]] :
        ts \in SeqsUpTo(Items, MaxItems), m \in MoreUrls }

\* The detail the server holds for a thread (TopicDetail): thread 1 has a
\* rendered and a raw first post, thread 2 an empty post list, any other
\* thread no post stream.
ServerDetail(id) ==
    CASE id = 1 ->
           [post_stream |-> Some([posts |-> Some(<<
              [cooked |-> Some(<<"<", "p", ">", "Hello ", "<", "b", ">", "world",
                                 "<", "/b", ">", "<", "/p", ">">>),
               raw |-> Some(<<"Hello **world**">>),
               created_at |-> <<"2024-01-01T00:00:00.000Z">>]>>)])]
      [] id = 2 -> [post_stream |-> Some([posts |-> Some(<<>>)])]
      [] OTHER  -> [post_stream |-> None]

\* What the transport does with a request: the promise of fetch rejects, or
\* resolves to a response with a status whose body parses as JSON or not.
HttpStatuses == {200, 404, 500}

Transports ==
    {[kind |-> "reject", status |-> 0, parses |-> FALSE]}
    \cup { [kind |-> "response", status |-> s, parses |-> b] :
             s \in HttpStatuses, b \in BOOLEAN }

\* Response.ok
ResponseOk(status) == status >= 200 /\ status <= 299

\* fetchJson without the test of r.ok.
fetchJsonErrorAnyStatus(tr) ==
    IF tr.kind = "reject" THEN "TypeError: fetch failed"
    ELSE IF ~tr.parses THEN "SyntaxError: Unexpected token"
    ELSE ""

\* fetchJson: the error it fails with, or "" when it succeeds with the
\* decoded body.
fetchJsonError(tr) ==
    IF tr.kind = "reject" THEN "TypeError: fetch failed"
    ELSE IF ~ResponseOk(tr.status) THEN "HTTP " \o ToString(tr.status)
    ELSE IF ~tr.parses THEN "SyntaxError: Unexpected token"
    ELSE ""

\* The errors a file write may fail with.
IoErrors == {"ENOSPC: no space left on device"}

(* -------------------------------- CSV ---------------------------------- *)

header == <<"id", ",", "title", ",", "body", ",", "created_at", ",", "tag", "\n">>

\* saveTopic, synchronous part: detail.post_stream?.posts?.[0]
firstPostOf(detail) ==
    IF detail.post_stream = None THEN None
    ELSE IF detail.post_stream[1].posts = None THEN None
    ELSE IF detail.post_stream[1].posts[1] = <<>> THEN None
    ELSE Some(detail.post_stream[1].posts[1][1])

\* firstPost?.cooked || firstPost?.raw || "": an empty rendered text gives
\* way to the raw text.
htmlOfOr(detail) ==
    LET firstPost == firstPostOf(detail)
    IN  IF firstPost = None THEN <<>>
        ELSE IF firstPost[1].cooked # None /\ firstPost[1].cooked[1] # <<>>
        THEN firstPost[1].cooked[1]
        ELSE IF firstPost[1].raw # None THEN firstPost[1].raw[1]
        ELSE <<>>

\* firstPost?.cooked ?? firstPost?.raw ?? ""
htmlOf(detail) ==
    LET firstPost == firstPostOf(detail)
    IN  IF firstPost = None THEN <<>>
        ELSE IF firstPost[1].cooked # None THEN firstPost[1].cooked[1]
        ELSE IF firstPost[1].raw # None THEN firstPost[1].raw[1]
        ELSE <<>>

cleanBodyOf(detail) == stripHtml(htmlOf(detail))

\* saveTopic: the line handed to fs.appendFile.
csvLineOf(p, listing, detail) ==
    JoinComma(<< <<ToString(listing.id)>>,
                 escapeCsv(listing.title),
                 escapeCsv(cleanBodyOf(detail)),
                 listing.created_at,
                 p.tag >>) \o <<"\n">>

\* For each thread the server may list, the line saveTopic builds from the
\* listing entry and the detail fetched for it.
savedLine == [t \in Items |-> csvLineOf(params, t, ServerDetail(t.id))]

(* ------------------------------ the run -------------------------------- *)

\* One external call of the run, as the log records it.
Op(kind, pg, pos, id) ==
    [op |-> kind, page |-> pg, pos |-> pos, id |-> id, status |-> "pending",
     http |-> 0, error |-> ""]

\* The log with its last call completed: its outcome, the HTTP status of the
\* response if there was one, and the error the call failed with.
Settle(l, status, http, error) ==
    [l EXCEPT ![Len(l)].status = status, ![Len(l)].http = http,
              ![Len(l)].error = error]

\* crawlPage, 145: the item is older than the cutoff.
IsStale(t) == isBefore(parseISO(t.created_at), params.since)

\* The stop rule without the test for an item older than the cutoff.
StopsAfterLinkOnly(ts, more) == more = Null \/ more = ""

\* The stop rule with the test of the link inverted.
StopsAfterLinkInverted(ts, more) ==
    \/ ~(more = Null \/ more = "")
    \/ \E i \in 1..Len(ts) : IsStale(ts[i])

\* The decision after the last item with the link test left out.
StopsAfterStaleOnly(ts, more) == \E i \in 1..Len(ts) : IsStale(ts[i])

\* crawlPage, 157-158: stop after this page.
StopsAfter(ts, more) ==
    \/ more = Null
    \/ more = ""
    \/ \E i \in 1..Len(ts) : IsStale(ts[i])

\* What the file may hold before the run: nothing, or an earlier run's output.
OldFiles == {<<>>, <<header, <<"9", ",", "Earlier", ",", ",", "2023-11-01", ",", "cuda", "\n">> >>}

Init ==
    /\ pc = "Start"
    /\ page = 0
    /\ topics = <<>>
    /\ more_topics_url = Null
    /\ idx = 0
    /\ csvLine = <<>>
    /\ file \in OldFiles
    /\ err = ""
    /\ log = <<>>
    /\ pages = <<>>
    /\ before = <<>>
    /\ arg = <<>>
    /\ result = <<>>

\* crawlNvidia: the run starts by issuing the header write.
StartRun ==
    /\ pc = "Start"
    /\ pc' = "WritingHeader"
    /\ log' = Append(log, Op("writeFile", 0, 0, 0))
    /\ UNCHANGED <<fixed, page, topics, more_topics_url, idx, csvLine, file, err, pages>>

\* createCsvHeader opening the file for append: the header is added after
\* what the file already holds.
HeaderWrittenAppend ==
    /\ pc = "WritingHeader"
    /\ file' = Append(file, header)
    /\ pc' = "FetchingPage"
    /\ page' = 1
    /\ log' = Append(Settle(log, "ok", 0, ""), Op("list", 1, 0, 0))
    /\ UNCHANGED <<fixed, topics, more_topics_url, idx, csvLine, err, pages>>

\* createCsvHeader succeeds: the file holds the header alone; crawlPage(p)
\* issues the listing request of page 1.
HeaderWritten ==
    /\ pc = "WritingHeader"
    /\ file' = <<header>>
    /\ pc' = "FetchingPage"
    /\ page' = 1
    /\ log' = Append(Settle(log, "ok", 0, ""), Op("list", 1, 0, 0))
    /\ UNCHANGED <<fixed, topics, more_topics_url, idx, csvLine, err, pages>>

\* createCsvHeader fails and the failure is swallowed: crawlPage(p) issues
\* the listing request of page 1 all the same.
HeaderFailedIgnored ==
    /\ pc = "WritingHeader"
    /\ \E e \in IoErrors :
         log' = Append(Settle(log, "fail", 0, e), Op("list", 1, 0, 0))
    /\ file' \in {file, <<>>}
    /\ pc' = "FetchingPage"
    /\ page' = 1
    /\ UNCHANGED <<fixed, topics, more_topics_url, idx, csvLine, err, pages>>

\* createCsvHeader fails: the file could not be opened (it is as it was) or
\* was truncated before the write failed.
HeaderFailed ==
    /\ pc = "WritingHeader"
    /\ \E e \in IoErrors :
         /\ err' = e
         /\ log' = Settle(log, "fail", 0, e)
    /\ file' \in {file, <<>>}
    /\ pc' = "Failed"
    /\ UNCHANGED <<fixed, page, topics, more_topics_url, idx, csvLine, pages>>

Reverse(seq) == [i \in 1..Len(seq) |-> seq[Len(seq) + 1 - i]]

\* The listing request completes and the items are walked last to first.
ListingFetchedReversed ==
    /\ pc = "FetchingPage"
    /\ page <= MaxPage
    /\ \E tr \in Transports, body \in ListingBodies :
         /\ fetchJsonError(tr) = ""
         /\ topics' = Reverse(body.topic_list.topics)
         /\ more_topics_url' = body.topic_list.more_topics_url
         /\ pages' = Append(pages, [no |-> page,
                                    topics |-> body.topic_list.topics,
                                    more_topics_url |-> body.topic_list.more_topics_url])
         /\ log' = Settle(log, "ok", tr.status, "")
    /\ idx' = 1
    /\ pc' = "ProcessingItems"
    /\ UNCHANGED <<fixed, page, csvLine, file, err>>

\* The listing request completes with a decoded page.
ListingFetched ==
    /\ pc = "FetchingPage"
    /\ page <= MaxPage
    /\ \E tr \in Transports, body \in ListingBodies :
         /\ fetchJsonError(tr) = ""
         /\ topics' = body.topic_list.topics
         /\ more_topics_url' = body.topic_list.more_topics_url
         /\ pages' = Append(pages, [no |-> page,
                                    topics |-> body.topic_list.topics,
                                    more_topics_url |-> body.topic_list.more_topics_url])
         /\ log' = Settle(log, "ok", tr.status, "")
    /\ idx' = 1
    /\ pc' = "ProcessingItems"
    /\ UNCHANGED <<fixed, page, csvLine, file, err>>

\* The listing request fails: the run fails with fetchJson's error.
ListingFailed ==
    /\ pc = "FetchingPage"
    /\ page <= MaxPage
    /\ \E tr \in Transports :
         /\ fetchJsonError(tr) # ""
         /\ err' = fetchJsonError(tr)
         /\ log' = Settle(log, "fail", tr.status, fetchJsonError(tr))
    /\ pc' = "Failed"
    /\ UNCHANGED <<fixed, page, topics, more_topics_url, idx, csvLine, file, pages>>

\* The skip of an old item without the step to the next item.
SkipItemStuck ==
    /\ pc = "ProcessingItems"
    /\ idx <= Len(topics)
    /\ IsStale(topics[idx])
    /\ UNCHANGED vars

\* forEach, an item older than the cutoff: the walk over the page ends here.
SkipItemBreak ==
    /\ pc = "ProcessingItems"
    /\ idx <= Len(topics)
    /\ IsStale(topics[idx])
    /\ idx' = Len(topics) + 1
    /\ UNCHANGED <<fixed, pc, page, topics, more_topics_url, csvLine, file, err, log, pages>>

\* forEach, an item older than the cutoff: nothing is done for it.
SkipItem ==
    /\ pc = "ProcessingItems"
    /\ idx <= Len(topics)
    /\ IsStale(topics[idx])
    /\ idx' = idx + 1
    /\ UNCHANGED <<fixed, pc, page, topics, more_topics_url, csvLine, file, err, log, pages>>

\* forEach run with unbounded concurrency: the detail requests of this item
\* and of every later item that is not stale are issued together.
RequestDetailConcurrent ==
    /\ pc = "ProcessingItems"
    /\ idx <= Len(topics)
    /\ ~IsStale(topics[idx])
    /\ pc' = "FetchingDetail"
    /\ LET rest  == [k \in 1..(Len(topics) - idx + 1) |-> idx + k - 1]
           fresh == SelectSeq(rest, LAMBDA i : ~IsStale(topics[i]))
       IN  log' = log \o [k \in 1..Len(fresh) |->
                            Op("detail", page, fresh[k], topics[fresh[k]].id)]
    /\ UNCHANGED <<fixed, page, topics, more_topics_url, idx, csvLine, file, err, pages>>

\* forEach, any other item: its detail request is issued.
RequestDetail ==
    /\ pc = "ProcessingItems"
    /\ idx <= Len(topics)
    /\ ~IsStale(topics[idx])
    /\ pc' = "FetchingDetail"
    /\ log' = Append(log, Op("detail", page, idx, topics[idx].id))
    /\ UNCHANGED <<fixed, page, topics, more_topics_url, idx, csvLine, file, err, pages>>

\* The detail request completes: saveTopic builds the line and issues the
\* append.
DetailFetched ==
    /\ pc = "FetchingDetail"
    /\ \E tr \in Transports :
         /\ fetchJsonError(tr) = ""
         /\ log' = Append(Settle(log, "ok", tr.status, ""),
                          Op("appendFile", page, idx, topics[idx].id))
    /\ csvLine' = savedLine[topics[idx]]
    /\ pc' = "Appending"
    /\ UNCHANGED <<fixed, page, topics, more_topics_url, idx, file, err, pages>>

\* The detail request fails and the failure is swallowed: the item is
\* passed over.
DetailFailedSkipped ==
    /\ pc = "FetchingDetail"
    /\ \E tr \in Transports :
         /\ fetchJsonError(tr) # ""
         /\ log' = Settle(log, "fail", tr.status, fetchJsonError(tr))
    /\ idx' = idx + 1
    /\ pc' = "ProcessingItems"
    /\ UNCHANGED <<fixed, page, topics, more_topics_url, csvLine, file, err, pages>>

\* The detail request fails and saveTopic is called all the same, with the
\* row the listing entry gives.
DetailFailedWritten ==
    /\ pc = "FetchingDetail"
    /\ \E tr \in Transports :
         /\ fetchJsonError(tr) # ""
         /\ log' = Append(Settle(log, "fail", tr.status, fetchJsonError(tr)),
                          Op("appendFile", page, idx, topics[idx].id))
    /\ csvLine' = savedLine[topics[idx]]
    /\ pc' = "Appending"
    /\ UNCHANGED <<fixed, page, topics, more_topics_url, idx, file, err, pages>>

\* The detail request fails: the run fails.
DetailFailed ==
    /\ pc = "FetchingDetail"
    /\ \E tr \in Transports :
         /\ fetchJsonError(tr) # ""
         /\ err' = fetchJsonError(tr)
         /\ log' = Settle(log, "fail", tr.status, fetchJsonError(tr))
    /\ pc' = "Failed"
    /\ UNCHANGED <<fixed, page, topics, more_topics_url, idx, csvLine, file, pages>>

\* The row is written with fs.writeFile: it replaces the file.
RowAppendedOverwrite ==
    /\ pc = "Appending"
    /\ file' = <<csvLine>>
    /\ csvLine' = <<>>
    /\ idx' = idx + 1
    /\ pc' = "ProcessingItems"
    /\ log' = Settle(log, "ok", 0, "")
    /\ UNCHANGED <<fixed, page, topics, more_topics_url, err, pages>>

\* The row is appended and the same item is handled again.
RowAppendedNoAdvance ==
    /\ pc = "Appending"
    /\ file' = Append(file, csvLine)
    /\ csvLine' = <<>>
    /\ pc' = "ProcessingItems"
    /\ log' = Settle(log, "ok", 0, "")
    /\ UNCHANGED <<fixed, page, topics, more_topics_url, idx, err, pages>>

\* fs.appendFile succeeds: the line is at the end of the file; forEach goes
\* on to the next item.
RowAppended ==
    /\ pc = "Appending"
    /\ file' = Append(file, csvLine)
    /\ csvLine' = <<>>
    /\ idx' = idx + 1
    /\ pc' = "ProcessingItems"
    /\ log' = Settle(log, "ok", 0, "")
    /\ UNCHANGED <<fixed, page, topics, more_topics_url, err, pages>>

\* The line and its terminator are written by two appends, and the second
\* one fails.
AppendFailedPartial ==
    /\ pc = "Appending"
    /\ \E e \in IoErrors :
         /\ err' = e
         /\ log' = Settle(log, "fail", 0, e)
    /\ file' = Append(file, SubSeq(csvLine, 1, Len(csvLine) - 1))
    /\ pc' = "Failed"
    /\ UNCHANGED <<fixed, page, topics, more_topics_url, idx, csvLine, pages>>

\* fs.appendFile fails: the file is as it was and the run fails.
AppendFailed ==
    /\ pc = "Appending"
    /\ \E e \in IoErrors :
         /\ err' = e
         /\ log' = Settle(log, "fail", 0, e)
    /\ pc' = "Failed"
    /\ UNCHANGED <<fixed, page, topics, more_topics_url, idx, csvLine, file, pages>>

\* After the last item: the run is done.
DecideStop ==
    /\ pc = "ProcessingItems"
    /\ idx > Len(topics)
    /\ StopsAfter(topics, more_topics_url)
    /\ pc' = "Done"
    /\ UNCHANGED <<fixed, page, topics, more_topics_url, idx, csvLine, file, err, log, pages>>

\* After the last item: the recursion made with page instead of page + 1.
DecideNextSamePage ==
    /\ pc = "ProcessingItems"
    /\ idx > Len(topics)
    /\ ~StopsAfter(topics, more_topics_url)
    /\ page < MaxPage
    /\ pc' = "FetchingPage"
    /\ log' = Append(log, Op("list", page, 0, 0))
    /\ UNCHANGED <<fixed, page, topics, more_topics_url, idx, csvLine, file, err, pages>>

\* After the last item: crawlPage(params, page + 1) issues the next listing
\* request.
DecideNext ==
    /\ pc = "ProcessingItems"
    /\ idx > Len(topics)
    /\ ~StopsAfter(topics, more_topics_url)
    /\ page < MaxPage
    /\ page' = page + 1
    /\ pc' = "FetchingPage"
    /\ log' = Append(log, Op("list", page + 1, 0, 0))
    /\ UNCHANGED <<fixed, topics, more_topics_url, idx, csvLine, file, err, pages>>

\* Beyond page MaxPage: crawlPage(params, page + 1) issues the next listing
\* request; the page number stands for any number above MaxPage.
DecideNextBeyond ==
    /\ pc = "ProcessingItems"
    /\ idx > Len(topics)
    /\ ~StopsAfter(topics, more_topics_url)
    /\ page >= MaxPage
    /\ page' = MaxPage + 1
    /\ pc' = "FetchingPage"
    /\ UNCHANGED <<fixed, topics, more_topics_url, idx, csvLine, file, err, log, pages>>

\* Beyond page MaxPage: the listing request completes with a page that lists
\* no thread.
TailListingFetched ==
    /\ pc = "FetchingPage"
    /\ page > MaxPage
    /\ \E tr \in Transports, m \in MoreUrls :
         /\ fetchJsonError(tr) = ""
         /\ more_topics_url' = m
    /\ topics' = <<>>
    /\ idx' = 1
    /\ pc' = "ProcessingItems"
    /\ UNCHANGED <<fixed, page, csvLine, file, err, log, pages>>

\* Beyond page MaxPage: the listing request fails and the run fails.
TailListingFailed ==
    /\ pc = "FetchingPage"
    /\ page > MaxPage
    /\ \E tr \in Transports :
         /\ fetchJsonError(tr) # ""
         /\ err' = fetchJsonError(tr)
    /\ pc' = "Failed"
    /\ UNCHANGED <<fixed, page, topics, more_topics_url, idx, csvLine, file, log, pages>>

Next ==
    \/ StartRun
    \/ HeaderWritten
    \/ HeaderFailed
    \/ ListingFetched
    \/ ListingFailed
    \/ SkipItem
    \/ RequestDetail
    \/ DetailFetched
    \/ DetailFailed
    \/ RowAppended
    \/ AppendFailed
    \/ DecideStop
    \/ DecideNext

Spec == Init /\ [][Next]_vars

\* What an earlier run with the same parameters has left in the file: the
\* rows of a run that went through, and those of a run that failed after
\* its first row.
PreviousOutputs ==
    LET row(id) == savedLine[CHOOSE t \in Items : t.id = id]
    IN  {<<header, row(1), row(2)>>, <<header, row(1)>>}

\* The state before the second of two runs with the same parameters: the
\* file holds what the first run left, and every step is still to be taken.
InitRerun ==
    /\ pc = "Start"
    /\ page = 0
    /\ topics = <<>>
    /\ more_topics_url = Null
    /\ idx = 0
    /\ csvLine = <<>>
    /\ before \in PreviousOutputs
    /\ file = before
    /\ err = ""
    /\ log = <<>>
    /\ pages = <<>>
    /\ arg = <<>>
    /\ result = <<>>

\* The second of two runs in succession.
RerunSpec == InitRerun /\ [][Next]_vars

(* ----------------------- saveTopic on its own -------------------------- *)

\* The characters of a field: an ordinary one, and the three that escapeCsv
\* looks for.
CsvTokens == {"a", ",", "\"", "\n"}

Titles == SeqsUpTo(CsvTokens, MaxField)

\* created_at as the server may send it, and the tag as the command line may
\* give it: without and with a comma.
Stamps == {<<"2024-01-01T00:00:00.000Z">>, <<"Jan 1", ",", " 2024">>}

Tags == {<<"cuda">>, <<"cuda", ",", "tensorrt">>}

\* The first post of a detail: cooked and raw each absent, empty or a text.
CookedTexts == {<<>>, <<"<", "p", ">", "c", ",", "c", "<", "/p", ">">>}

RawTexts == {<<>>, <<"r", "\"", "r">>}

Posts ==
    [cooked : {None} \cup {Some(x) : x \in CookedTexts},
     raw : {None} \cup {Some(x) : x \in RawTexts},
     created_at : {<<"2024-01-01T00:00:00.000Z">>}]

\* The details a detail request may be answered with: no post stream, a
\* post stream without posts, with an empty post list, with one post, and
\* with a second post after it.
Details ==
    {[post_stream |-> None],
     [post_stream |-> Some([posts |-> None])],
     [post_stream |-> Some([posts |-> Some(<<>>)])]}
    \cup {[post_stream |-> Some([posts |-> Some(<<p>>)])] : p \in Posts}
    \cup {[post_stream |-> Some([posts |-> Some(<<p,
              [cooked |-> Some(<<"second">>), raw |-> Some(<<"second">>),
               created_at |-> <<"2024-01-02T00:00:00.000Z">>]>>)])] : p \in Posts}

\* The arguments of one call of saveTopic.
SaveInputs ==
    [listing : [id : {42}, title : Titles, created_at : Stamps],
     detail : Details,
     tag : Tags]

\* crawlPage has the detail of an item and is about to call saveTopic; the
\* file holds the header.
InitSave ==
    /\ pc = "Saving"
    /\ page = 1
    /\ topics = <<>>
    /\ more_topics_url = Null
    /\ idx = 1
    /\ csvLine = <<>>
    /\ file = <<header>>
    /\ err = ""
    /\ log = <<>>
    /\ pages = <<>>
    /\ before = <<>>
    /\ arg \in SaveInputs
    /\ result = <<>>

\* saveTopic: the line is built and the append is issued.
SaveTopic ==
    /\ pc = "Saving"
    /\ LET line == csvLineOf([params EXCEPT !.tag = arg.tag], arg.listing, arg.detail)
       IN  /\ csvLine' = line
           /\ result' = line
    /\ log' = Append(log, Op("appendFile", page, idx, arg.listing.id))
    /\ pc' = "Appending"
    /\ UNCHANGED <<before, arg, page, topics, more_topics_url, idx, file, err, pages>>

NextSave ==
    \/ SaveTopic
    \/ RowAppended
    \/ AppendFailed

\* saveTopic applied to every listing entry, detail and tag of SaveInputs.
SaveSpec == InitSave /\ [][NextSave]_vars

(* ----------------------- stripHtml on its own -------------------------- *)

\* The characters of a text: the two that delimit a tag, and another one.
HtmlTokens == {"<", ">", "a"}

\* <p>Hello <b>world</b></p>
Paragraph ==
    <<"<", "p", ">", "Hello ", "<", "b", ">", "world", "<", "/b", ">", "<", "/p", ">">>

HtmlTexts == SeqsUpTo(HtmlTokens, MaxText) \cup {Paragraph}

\* saveTopic is about to strip the text of a first post.
InitStrip ==
    /\ pc = "Stripping"
    /\ page = 1
    /\ topics = <<>>
    /\ more_topics_url = Null
    /\ idx = 1
    /\ csvLine = <<>>
    /\ file = <<header>>
    /\ err = ""
    /\ log = <<>>
    /\ pages = <<>>
    /\ before = <<>>
    /\ arg \in HtmlTexts
    /\ result = <<>>

\* const cleanBody = stripHtml(html)
StripHtml ==
    /\ pc = "Stripping"
    /\ result' = stripHtml(arg)
    /\ pc' = "Stripped"
    /\ UNCHANGED <<before, arg, page, topics, more_topics_url, idx, csvLine, file, err,
                   log, pages>>

\* stripHtml applied to every text of HtmlTexts.
StripSpec == InitStrip /\ [][StripHtml]_vars

NextEndless ==
    \/ Next
    \/ DecideNextBeyond
    \/ TailListingFetched
    \/ TailListingFailed

\* The run followed beyond page MaxPage, under the assumption that every
\* external call returns and every handler that can run does run.
EndlessSpec == Init /\ [][NextEndless]_vars /\ WF_vars(NextEndless)

(* --------------------------- claim vocabulary -------------------------- *)

\* The header write has succeeded.
HeaderOk == Len(log) >= 1 /\ log[1].op = "writeFile" /\ log[1].status = "ok"

\* createdAt strictly before since.
CreatedBefore(t) == parseISO(t.created_at).t < params.since.t

HasStaleItem(ts) == \E i \in 1..Len(ts) : CreatedBefore(ts[i])

\* The page reports a next-page link.
HasNextLink(more) == more # Null /\ more # ""

IsPrefix(a, b) == Len(a) <= Len(b) /\ SubSeq(b, 1, Len(a)) = a

\* The content of a file: the concatenation of the chunks written to it.
RECURSIVE Flatten(_)
Flatten(ss) == IF ss = <<>> THEN <<>> ELSE Head(ss) \o Flatten(Tail(ss))

Terminal == pc \in {"Done", "Failed"}

\* The items of the fetched pages that are not older than the cutoff, in the
\* order of discovery: by page, then by position in the page.
RECURSIVE Discovered(_)
Discovered(ps) ==
    IF ps = <<>> THEN <<>>
    ELSE SelectSeq(Head(ps).topics, LAMBDA t : ~CreatedBefore(t))
         \o Discovered(Tail(ps))

\* The row of an item, given the detail the server holds for it.
ExpectedRow(t) == savedLine[t]

\* What a run in which every call succeeds has written once it has handled
\* the pages ps.
FullContent(ps) ==
    <<header>> \o [k \in 1..Len(Discovered(ps)) |-> ExpectedRow(Discovered(ps)[k])]

\* The appends that have succeeded.
OkAppends == {k \in 1..Len(log) : log[k].op = "appendFile" /\ log[k].status = "ok"}

\* The page numbers of the fetched pages increase.
PagesAscending == \A i, j \in 1..Len(pages) : i < j => pages[i].no < pages[j].no

\* The fetched page with the given number.
PageNo(p) == pages[CHOOSE i \in 1..Len(pages) : pages[i].no = p]

\* The data rows of the file that start with the given thread id.
RowsOf(id) == {k \in 2..Len(file) : file[k][1] = ToString(id)}

(* ------------------------------- claims -------------------------------- *)

\* C1: once a fetched listing page holds an item created before the cutoff,
\* no listing page with a higher number is requested, whatever link the
\* page reported.
C1_StalePageEndsPagination ==
    \A i \in 1..Len(pages) :
        HasStaleItem(pages[i].topics) =>
            \A k \in 1..Len(log) :
                log[k].op = "list" => log[k].page <= pages[i].no

\* A run is done after a page that held an old item and reported a link.
C1_Witness ==
    /\ pc = "Done"
    /\ Len(pages) >= 1
    /\ HasStaleItem(pages[Len(pages)].topics)
    /\ HasNextLink(pages[Len(pages)].more_topics_url)

\* C2: after the last item of a page whose items are all at or after the
\* cutoff and which reported a link, the only step of the run is the request
\* of the next page; the run is never done after such a page.
C2_FreshPageFetchesNext ==
    /\ [][(/\ pc = "ProcessingItems"
           /\ idx > Len(topics)
           /\ ~HasStaleItem(topics)
           /\ HasNextLink(more_topics_url)
           /\ page < MaxPage)
          => (/\ pc' = "FetchingPage"
              /\ page' = page + 1
              /\ log'[Len(log')] = Op("list", page + 1, 0, 0))]_vars
    /\ [](pc = "Done" =>
            /\ pages # <<>>
            /\ \/ HasStaleItem(pages[Len(pages)].topics)
               \/ ~HasNextLink(pages[Len(pages)].more_topics_url))

\* Page 2 has been fetched after a page 1 whose items were all fetched and
\* written.
C2_Witness ==
    /\ Len(pages) = 2
    /\ pages[2].no = 2
    /\ Len(pages[1].topics) >= 1
    /\ Len(file) = 1 + Len(pages[1].topics)

\* C3: for an item of a fetched page created before the cutoff, no detail
\* request is issued for its id and no row of the file is its row.
C3_StaleItemUntouched ==
    \A i \in 1..Len(pages) :
        \A j \in 1..Len(pages[i].topics) :
            CreatedBefore(pages[i].topics[j]) =>
                /\ \A k \in 1..Len(log) :
                       log[k].op \in {"detail", "appendFile"} =>
                           /\ log[k].id # pages[i].topics[j].id
                           /\ ~(log[k].page = pages[i].no /\ log[k].pos = j)
                /\ HeaderOk => RowsOf(pages[i].topics[j].id) = {}

\* A run is done after a page with an old item followed by a newer one,
\* whose row is written.
C3_Witness ==
    /\ pc = "Done"
    /\ Len(pages) = 1
    /\ Len(pages[1].topics) = 2
    /\ CreatedBefore(pages[1].topics[1])
    /\ ~CreatedBefore(pages[1].topics[2])
    /\ Len(file) = 2

\* C4: the data rows are the rows of the discovered items in the order of
\* discovery (page number, then position), and an append for an item is
\* issued only when every earlier item of its page is old or written.
C4_RowsInDiscoveryOrder ==
    HeaderOk =>
        /\ PagesAscending
        /\ IsPrefix(file, FullContent(pages))
        /\ \A k \in 1..Len(log) :
               log[k].op = "appendFile" =>
                   \A j \in 1..(log[k].pos - 1) :
                       \/ CreatedBefore(PageNo(log[k].page).topics[j])
                       \/ \E h \in 1..(k - 1) :
                             /\ log[h].op = "appendFile"
                             /\ log[h].page = log[k].page
                             /\ log[h].pos = j
                             /\ log[h].status = "ok"

\* Rows of two pages are in the file, two of them of different threads of
\* one page.
C4_Witness ==
    /\ Len(pages) = 2
    /\ Len(file) >= 4
    /\ \E i \in 1..2 :
          /\ Len(pages[i].topics) = 2
          /\ pages[i].topics[1].id # pages[i].topics[2].id

\* C5: a failed detail request is the last call of the run: the run has
\* failed with the error of that request, at that item, with no append
\* issued for it and nothing issued after it.
C5_DetailFailureIsFatal ==
    \A k \in 1..Len(log) :
        (log[k].op = "detail" /\ log[k].status = "fail") =>
            /\ k = Len(log)
            /\ pc = "Failed"
            /\ log[k].error # ""
            /\ err = log[k].error
            /\ page = log[k].page
            /\ idx = log[k].pos
            /\ Len(file) = 1 + Cardinality(OkAppends)

\* The detail request of the second item of a page has failed.
C5_Witness ==
    /\ pc = "Failed"
    /\ log[Len(log)].op = "detail"
    /\ log[Len(log)].status = "fail"
    /\ log[Len(log)].pos = 2
    /\ Len(file) = 2

\* C6: when the listing request of page 1 is answered with a non-success
\* status s, the run has failed with an error naming s, no detail request
\* was issued and the file is the header line alone.
C6_FirstListingHttpError ==
    \A k \in 1..Len(log) :
        (/\ log[k].op = "list"
         /\ log[k].page = 1
         /\ log[k].http # 0
         /\ ~(log[k].http >= 200 /\ log[k].http <= 299)) =>
            /\ pc = "Failed"
            /\ err = "HTTP " \o ToString(log[k].http)
            /\ \A h \in 1..Len(log) : log[h].op # "detail"
            /\ file = <<header>>

\* The listing request of page 1 was answered with status 500.
C6_Witness ==
    /\ Len(log) = 2
    /\ log[2].op = "list"
    /\ log[2].page = 1
    /\ log[2].http = 500
    /\ pc = "Failed"

\* C7: after a failure of a listing request, a detail request or an append,
\* the file is the header followed by the complete rows appended before the
\* failure, a prefix of what the run without failure writes for the same
\* pages.
C7_FailedRunLeavesPrefix ==
    (pc = "Failed" /\ HeaderOk) =>
        /\ IsPrefix(file, FullContent(pages))
        /\ IsPrefix(Flatten(file), Flatten(FullContent(pages)))
        /\ file[1] = header
        /\ Len(file) = 1 + Cardinality(OkAppends)
        /\ \A k \in 1..Len(file) : file[k][Len(file[k])] = "\n"

\* An append has failed after a row was written.
C7_Witness ==
    /\ pc = "Failed"
    /\ log[Len(log)].op = "appendFile"
    /\ log[Len(log)].status = "fail"
    /\ Len(file) = 2

\* C8 as stated: the file never holds two data rows of one thread id.
C8_OneRowPerThreadId ==
    HeaderOk => \A t \in Items : Cardinality(RowsOf(t.id)) <= 1

\* No thread id is listed twice in the fetched pages.
NoRepeatedId ==
    \A i, j \in 1..Len(pages) :
        \A a \in 1..Len(pages[i].topics), b \in 1..Len(pages[j].topics) :
            pages[i].topics[a].id = pages[j].topics[b].id => (i = j /\ a = b)

\* C8 as amended: at most one append is issued per listed item (page and
\* position), the data rows are those of the appends that succeeded, and
\* when the server lists no thread id twice the file holds at most one data
\* row per thread id.
C8_OneRowPerListedItem ==
    HeaderOk =>
        /\ \A p \in 1..MaxPage, j \in 1..MaxItems :
               Cardinality({k \in 1..Len(log) :
                   log[k].op = "appendFile" /\ log[k].page = p /\ log[k].pos = j}) <= 1
        /\ Len(file) = 1 + Cardinality(OkAppends)
        /\ NoRepeatedId => \A t \in Items : Cardinality(RowsOf(t.id)) <= 1

\* Two pages that list different threads have been written.
C8_Witness ==
    /\ NoRepeatedId
    /\ Len(pages) = 2
    /\ Len(pages[1].topics) >= 1
    /\ Len(pages[2].topics) >= 1
    /\ Len(file) = 3

\* C9: from the moment the header is written, every step leaves the file
\* with its earlier content as a prefix, and the first line is the header.
C9_FileOnlyGrows ==
    /\ [][HeaderOk => (IsPrefix(file, file') /\ file'[1] = header)]_vars
    /\ [](HeaderOk => (file # <<>> /\ file[1] = header))

\* The file holds the header and two rows.
C9_Witness == HeaderOk /\ Len(file) = 3

\* C10 as stated: every run ends in Done or Failed.
C10_EveryRunEnds == <>Terminal

\* C10 as amended: a run ends in Done or Failed, or requests listing pages
\* for ever; the latter happens only while every page has a link and no item
\* older than the cutoff.
C10_RunEndsOrPagesForever ==
    /\ <>Terminal \/ []<>(pc = "FetchingPage")
    /\ [][(pc = "ProcessingItems" /\ pc' = "FetchingPage") =>
             (~HasStaleItem(topics) /\ HasNextLink(more_topics_url))]_vars

\* A run is done on a page beyond MaxPage, after two pages with rows.
C10_Witness == pc = "Done" /\ page > MaxPage /\ Len(file) >= 3

\* The external calls that have been issued and have not completed.
InFlight == {k \in 1..Len(log) : log[k].status = "pending"}

\* C11: at most one external operation is in flight at any point, so never
\* two network calls, two file writes, or a network call with a file write;
\* a call is issued only after the call before it has completed, and the
\* run waits for the call in flight and for nothing else.
C11_OneCallInFlight ==
    /\ [](/\ Cardinality(InFlight) <= 1
          /\ InFlight \subseteq {Len(log)}
          /\ (InFlight # {}) <=>
                 (pc \in {"WritingHeader", "FetchingPage", "FetchingDetail", "Appending"}))
    /\ [][Len(log') > Len(log) =>
             /\ Len(log') = Len(log) + 1
             /\ \A k \in 1..Len(log) : log'[k].status # "pending"]_vars

\* A row append is in flight after the header write, a listing request and a
\* detail request have completed.
C11_Witness ==
    /\ pc = "Appending"
    /\ log[Len(log)].op = "appendFile"
    /\ InFlight = {Len(log)}
    /\ {log[k].op : k \in 1..(Len(log) - 1)} = {"writeFile", "list", "detail"}

\* The first n chunks of a file.
Take(f, n) == SubSeq(f, 1, n)

\* C12: a run started on the file an earlier run with the same parameters
\* left holds, from the header write on, exactly what a run started on no
\* file holds at the same point: the header and one row per append that
\* succeeded, nothing of the earlier content; so a second run against the
\* same responses ends with the content the first run left.
C12_SecondRunReplacesFirst ==
    /\ (~HeaderOk /\ ~Terminal) => file = before
    /\ HeaderOk =>
          /\ file = Take(FullContent(pages), 1 + Cardinality(OkAppends))
          /\ Len(file) = 1 + Cardinality(OkAppends)
    /\ (pc = "Done" /\ before = FullContent(pages)) => file = before

\* The second run is done against the responses that gave the first run its
\* two rows, and the file holds those two rows once.
C12_Witness ==
    /\ pc = "Done"
    /\ Len(before) = 3
    /\ before = FullContent(pages)
    /\ file = before

\* A CSV text read by the rules of RFC 4180: records end at a newline outside
\* quotes, fields at a comma outside quotes; a field that starts with a quote
\* runs to its closing quote, and a doubled quote in it is one quote.
RECURSIVE ParseCsvFrom(_, _, _, _, _, _)
ParseCsvFrom(s, i, records, fields, cur, quoted) ==
    IF i > Len(s)
    THEN IF fields = <<>> /\ cur = <<>> THEN records
         ELSE Append(records, Append(fields, cur))
    ELSE IF quoted
    THEN IF s[i] # "\""
         THEN ParseCsvFrom(s, i + 1, records, fields, cur \o <<s[i]>>, TRUE)
         ELSE IF i < Len(s) /\ s[i + 1] = "\""
         THEN ParseCsvFrom(s, i + 2, records, fields, cur \o <<"\"">>, TRUE)
         ELSE ParseCsvFrom(s, i + 1, records, fields, cur, FALSE)
    ELSE IF s[i] = ","
    THEN ParseCsvFrom(s, i + 1, records, Append(fields, cur), <<>>, FALSE)
    ELSE IF s[i] = "\n"
    THEN ParseCsvFrom(s, i + 1, Append(records, Append(fields, cur)), <<>>, <<>>, FALSE)
    ELSE IF s[i] = "\"" /\ cur = <<>>
    THEN ParseCsvFrom(s, i + 1, records, fields, cur, TRUE)
    ELSE ParseCsvFrom(s, i + 1, records, fields, cur \o <<s[i]>>, FALSE)

ParseCsv(s) == ParseCsvFrom(s, 1, <<>>, <<>>, <<>>, FALSE)

\* The field holds a comma, a newline or a quote.
NeedsQuoting(f) == \E i \in 1..Len(f) : f[i] \in {",", "\n", "\""}

\* The field between quotes, each quote of it doubled.
Quoted(f) ==
    <<"\"">>
    \o Flatten([i \in 1..Len(f) |-> IF f[i] = "\"" THEN <<"\"", "\"">> ELSE <<f[i]>>])
    \o <<"\"">>

\* The field as a row is said to hold it.
Written(f) == IF NeedsQuoting(f) THEN Quoted(f) ELSE f

\* The five values of the row saveTopic was called for.
RowValues ==
    << <<ToString(arg.listing.id)>>, arg.listing.title, cleanBodyOf(arg.detail),
       arg.listing.created_at, arg.tag >>

\* C13: the row holds the five fields id, title, body, created_at, tag in
\* that order, separated by commas and ended by one newline; every field
\* with a comma, a newline or a quote in it (title, body, created_at, tag)
\* is between quotes with its quotes doubled, any other field is unchanged;
\* and the row reads back as one record of exactly these five fields.
C13_EveryFieldEscaped ==
    result # <<>> =>
        /\ result = Written(RowValues[1]) \o <<",">> \o Written(RowValues[2])
                    \o <<",">> \o Written(RowValues[3]) \o <<",">>
                    \o Written(RowValues[4]) \o <<",">> \o Written(RowValues[5])
                    \o <<"\n">>
        /\ ParseCsv(result) = <<RowValues>>

\* The tokens of s at the positions K, in their order.
RECURSIVE Restrict(_, _, _)
Restrict(s, K, i) ==
    IF i > Len(s) THEN <<>>
    ELSE (IF i \in K THEN <<s[i]>> ELSE <<>>) \o Restrict(s, K, i + 1)

\* Positions i..j of s hold a tag: a "<", then at least min tokens other
\* than ">", then a ">".
IsTag(s, i, j, min) ==
    /\ s[i] = "<"
    /\ s[j] = ">"
    /\ j - i - 1 >= min
    /\ \A k \in (i + 1)..(j - 1) : s[k] # ">"

HasTag(s, min) == \E i, j \in 1..Len(s) : i < j /\ IsTag(s, i, j, min)

\* out is s without some of its tags, whole, each with at least min tokens
\* between its brackets; every token outside these tags is kept, in order;
\* and no such tag is left in out.
StrippedOf(s, out, min) ==
    /\ \E K \in SUBSET (1..Len(s)) :
          /\ out = Restrict(s, K, 1)
          /\ \A p \in (1..Len(s)) \ K :
                \E i \in 1..p, j \in p..Len(s) :
                    /\ i < j
                    /\ IsTag(s, i, j, min)
                    /\ \A k \in i..j : k \notin K
    /\ ~HasTag(out, min)

\* C14 as stated: the stripper returns its input without any "<" ... ">",
\* the empty tag "<>" included, every other character kept in order; it is
\* defined on every text, and <p>Hello <b>world</b></p> gives Hello world.
C14_AllTagsRemoved ==
    pc = "Stripped" =>
        /\ StrippedOf(arg, result, 0)
        /\ arg = Paragraph => result = <<"Hello ", "world">>

\* C14 as amended: the tags removed are those with at least one character
\* between the brackets; "<>" is not one, and a text without such a tag is
\* returned as it is.
C14_NonEmptyTagsRemoved ==
    pc = "Stripped" =>
        /\ StrippedOf(arg, result, 1)
        /\ ~HasTag(arg, 1) => result = arg
        /\ arg = Paragraph => result = <<"Hello ", "world">>

\* A text with a tag and a "<" that opens none: the tag is gone, the "<" is
\* kept.
C14_Witness ==
    /\ pc = "Stripped"
    /\ Len(result) < Len(arg)
    /\ Includes(result, "<")

\* The calls of one kind in the log.
Calls(kind) == {k \in 1..Len(log) : log[k].op = kind}

C16_HeaderWriteComesFirst ==
    /\ pc # "Start" => (Len(log) >= 1 /\ log[1].op = "writeFile")
    /\ \A k \in 2..Len(log) : log[k].op # "writeFile" /\ log[1].status = "ok"
    /\ (Len(log) >= 1 /\ log[1].status = "fail") =>
          /\ pc = "Failed"
          /\ err \in IoErrors
          /\ err = log[1].error
          /\ Len(log) = 1
          /\ pages = <<>>

\* The header write has failed on a file that held an earlier run's rows,
\* and the run has failed without another call.
C16_Witness ==
    /\ pc = "Failed"
    /\ Len(log) = 1
    /\ log[1].op = "writeFile"
    /\ log[1].status = "fail"
    /\ Len(file) >= 2

\* The posts of a detail: none when the post stream or its list is absent.
PostsOf(d) ==
    IF d.post_stream = None \/ d.post_stream[1].posts = None THEN <<>>
    ELSE d.post_stream[1].posts[1]

\* The body field of the row saveTopic built, read back from the row.
BodyWritten == ParseCsv(result)[1][3]

\* C17: the body of the row is the first post's rendered text when the post
\* has one (even an empty one), else its raw text when it has one, else the
\* empty string, markup removed; a detail without post stream, without post
\* list or with no post gives an empty body and is no error: the append is
\* issued, and once it succeeds the row is in the file and the walk over the
\* page goes on.
C17_BodyFallback ==
    /\ pc # "Saving" =>
          LET posts == PostsOf(arg.detail)
          IN  /\ (posts # <<>> /\ posts[1].cooked # None) =>
                     BodyWritten = stripHtml(posts[1].cooked[1])
              /\ (posts # <<>> /\ posts[1].cooked = None /\ posts[1].raw # None) =>
                     BodyWritten = stripHtml(posts[1].raw[1])
              /\ (posts # <<>> /\ posts[1].cooked = None /\ posts[1].raw = None) =>
                     BodyWritten = <<>>
              /\ posts = <<>> => BodyWritten = <<>>
              /\ Len(log) = 1 /\ log[1].op = "appendFile"
    /\ pc = "Failed" => (log[1].status = "fail" /\ err \in IoErrors)
    /\ pc = "ProcessingItems" => (file = <<header, result>> /\ err = "")

\* The row of a first post without rendered text has been appended with the
\* post's raw text as body.
C17_Witness ==
    /\ pc = "ProcessingItems"
    /\ PostsOf(arg.detail) # <<>>
    /\ PostsOf(arg.detail)[1].cooked = None
    /\ PostsOf(arg.detail)[1].raw = Some(<<"r", "\"", "r">>)
    /\ BodyWritten = <<"r", "\"", "r">>
    /\ Len(file) = 2

\* The first listing page came back with no item and no link.
FirstPageEmptyNoLink ==
    /\ Len(pages) >= 1
    /\ pages[1].topics = <<>>
    /\ ~HasNextLink(pages[1].more_topics_url)

\* C18: when the first listing page holds no item and no link, the run is
\* done by its next step, with one network request in all (the listing
\* request of page 1), no detail request and no append, and the file holds
\* the header alone.
C18_EmptyFirstPage ==
    /\ [](FirstPageEmptyNoLink =>
             /\ pc \in {"ProcessingItems", "Done"}
             /\ Calls("list") = {2}
             /\ log[2].page = 1
             /\ Calls("detail") = {}
             /\ Calls("appendFile") = {}
             /\ Len(log) = 2
             /\ file = <<header>>)
    /\ [][(FirstPageEmptyNoLink /\ pc = "ProcessingItems") => pc' = "Done"]_vars

\* The run is done after a first page without item whose link was null.
C18_Witness ==
    /\ pc = "Done"
    /\ FirstPageEmptyNoLink
    /\ pages[1].more_topics_url = Null
    /\ file = <<header>>

\* C19: the listing requests of a run carry the page numbers 1, 2, 3, ... in
\* that order, each number once; the request of page p + 1 is issued by the
\* step that follows the last item of page p, after every item of page p was
\* skipped as older than the cutoff or fetched and appended; and its number
\* is p + 1 whatever the link of page p was, as long as there was one.
C19_PagesInSequence ==
    /\ [](\A k \in Calls("list") :
             /\ log[k].page = Cardinality({j \in Calls("list") : j <= k})
             /\ log[k].page > 1 =>
                   LET p == log[k].page - 1
                   IN  /\ \E i \in 1..Len(pages) : pages[i].no = p
                       /\ HasNextLink(PageNo(p).more_topics_url)
                       /\ \A j \in 1..Len(PageNo(p).topics) :
                             \/ CreatedBefore(PageNo(p).topics[j])
                             \/ \E a \in 1..(k - 1) :
                                   /\ log[a].op = "appendFile"
                                   /\ log[a].page = p
                                   /\ log[a].pos = j
                                   /\ log[a].status = "ok")
    /\ [][(pc' = "FetchingPage" /\ pc = "ProcessingItems") =>
             /\ idx > Len(topics)
             /\ HasNextLink(more_topics_url)
             /\ page' = page + 1
             /\ log' = Append(log, Op("list", page + 1, 0, 0))]_vars

\* Page 2 is requested after the two items of page 1 were fetched and
\* appended.
C19_Witness ==
    /\ pc = "FetchingPage"
    /\ page = 2
    /\ Len(pages) = 1
    /\ Len(pages[1].topics) = 2
    /\ Cardinality(OkAppends) = 2
    /\ log[Len(log)].op = "list"
    /\ log[Len(log)].page = 2

\* The detail requests that have succeeded.
OkDetails == {k \in 1..Len(log) : log[k].op = "detail" /\ log[k].status = "ok"}

\* The row of the file that the successful append a wrote: calls complete
\* one at a time, so the rows are in the order of the appends.
RowOfAppend(oks, a) == 1 + Cardinality({b \in oks : b <= a})

====
